---- MODULE Spec2Model ----
(***************************************************************************)
(* Model of the poll bot of src/main.py: the Poll dataclass, the Poller    *)
(* registry (a dict guarded by one asyncio.Lock, plus the cleanup task)    *)
(* and the four interaction handlers that drive it.                        *)
(*                                                                         *)
(* Strings are sequences of one-character strings.  Poll identifiers       *)
(* (uuid4 strings) are small numbers.  Poll objects live in the heap       *)
(* objs; the registry dict polls maps a key to a heap reference, so that   *)
(* a handler's local reference outlives the removal of the key.            *)
(* None is 0.  The clock now is the value int(time()) returns.             *)
(*                                                                         *)
(* Tasks run on one asyncio event loop.  Every await is a point at which   *)
(* the loop may run another task; between two awaits a task runs alone.    *)
(* No body of "async with self.poll_lock" awaits, so a task that is given  *)
(* the lock runs the body and releases the lock in the same step: an       *)
(* action that uses the registry needs the lock free and leaves it free.   *)
(***************************************************************************)
EXTENDS Integers, Sequences, FiniteSets, TLC

\* ------------------------------------------------------------ bounds
MaxPolls == 1
MaxCallerPolls == 2
NumUsers == 2
NumTasks == 2
MaxVotes == 2
MaxLate == 1
MaxStrLen == 3

\* ------------------------------------------------- program constants
MAX_OPTIONS == 5
MIN_OPTIONS == 2
DEFAULT_EXPIRES == 25200
CLEANUP_SLEEP == 60
ExpiresChoices == {3600, 25200, 86400, 604800}
DEFAULT_EMOJIS == << <<"R">>, <<"O">>, <<"Y">>, <<"G">>, <<"B">> >>

None == 0
Ids == 1..MaxCallerPolls
Users == 1..NumUsers
Tasks == 1..NumTasks

\* ------------------------------------------------------ input domains
\* expires-after as the slash command delivers it: absent (None) or a choice
ExpiresInputs == {3600}
\* the instants at which the clock is read
TimePoints == {0} \cup {e + d : e \in ExpiresInputs, d \in 0..MaxLate}
\* vote indices a direct caller of add_poll_vote may pass
VoteIndexInputs == {-3, -1, 0, 2}

RECURSIVE StringsUpTo(_, _)
StringsUpTo(alphabet, n) ==
    IF n = 0 THEN {<< >>}
    ELSE LET shorter == StringsUpTo(alphabet, n - 1)
         IN  shorter \cup {Append(s, c) : s \in {x \in shorter : Len(x) = n - 1}, c \in alphabet}

\* ---------------------------------------------------- Python helpers
Min(a, b) == IF a < b THEN a ELSE b

\* seq[:n]
Take(seq, n) == SubSeq(seq, 1, Min(n, Len(seq)))

\* list index i (0-based, negatives count from the end) as a 1-based position,
\* or None when Python raises IndexError
PyIndex(len, i) ==
    IF 0 <= i /\ i < len THEN i + 1
    ELSE IF i < 0 /\ -len <= i THEN len + i + 1
    ELSE None

\* str.find(c, start): 0-based index of the first c at or after start, or -1
Find(s, c, start) ==
    LET hits == {i \in 0..(Len(s) - 1) : i >= start /\ s[i + 1] = c}
    IN  IF hits = {} THEN -1 ELSE CHOOSE i \in hits : \A j \in hits : i <= j

\* s[a:b] with Python's treatment of negative and out-of-range bounds
PySlice(s, a, b) ==
    LET n == Len(s)
        norm(i) == IF i < 0 THEN (IF n + i < 0 THEN 0 ELSE n + i) ELSE Min(i, n)
    IN  SubSeq(s, norm(a) + 1, norm(b))

WHITESPACE == {" "}
DIGITS == {"1", "2"}
WORD_CHARS == {"a", "b", "_"} \cup DIGITS

RECURSIVE Strip(_)
Strip(s) ==
    IF s = << >> THEN s
    ELSE IF s[1] \in WHITESPACE THEN Strip(Tail(s))
    ELSE IF s[Len(s)] \in WHITESPACE THEN Strip(SubSeq(s, 1, Len(s) - 1))
    ELSE s

\* s.split(',')
RECURSIVE SplitComma(_)
SplitComma(s) ==
    LET i == Find(s, ",", 0)
    IN  IF i = -1 THEN <<s>>
        ELSE <<SubSeq(s, 1, i)>> \o SplitComma(SubSeq(s, i + 2, Len(s)))

\* [i.strip() for i in s.split(',')[:n]]
StripAll(parts) == [i \in 1..Len(parts) |-> Strip(parts[i])]
SplitStrip(s, n) == StripAll(Take(SplitComma(s), n))

\* int(s) for a string of ASCII digits; None stands for ValueError
RECURSIVE DigitsValue(_)
DigitsValue(s) ==
    IF s = << >> THEN 0
    ELSE 10 * DigitsValue(SubSeq(s, 1, Len(s) - 1))
         + (IF s[Len(s)] = "1" THEN 1 ELSE 2)
ParseInt(s) ==
    LET t == Strip(s)
    IN  IF t # << >> /\ \A i \in 1..Len(t) : t[i] \in DIGITS THEN DigitsValue(t) ELSE None

\* CUSTOM_EMOJI_REGEX = ^<a?:\w+:\d+>$
CUSTOM_EMOJI_REGEX(e) ==
    /\ Len(e) >= 1 /\ e[1] = "<"
    /\ LET r == IF Len(e) >= 3 /\ e[2] = "a" /\ e[3] = ":" THEN SubSeq(e, 3, Len(e))
                ELSE Tail(e)
       IN  /\ Len(r) >= 1 /\ r[1] = ":"
           /\ LET c == Find(r, ":", 1)
              IN  /\ c >= 2
                  /\ \A i \in 2..c : r[i] \in WORD_CHARS
                  /\ Len(r) >= c + 3
                  /\ r[Len(r)] = ">"
                  /\ \A i \in (c + 2)..(Len(r) - 1) : r[i] \in DIGITS

\* 'a:' in s
HasAColon(s) == \E i \in 1..(Len(s) - 1) : s[i] = "a" /\ s[i + 1] = ":"

EmojiModel(name, id, animated) == [name |-> name, id |-> id, animated |-> animated]
UnicodeEmoji(name) == EmojiModel(name, None, FALSE)

\* the False emoji_from_mention returns, as a value no EmojiModel equals
NotAnEmoji == EmojiModel(<< >>, -1, FALSE)

\* emoji_from_mention: an EmojiModel, or NotAnEmoji for the False it returns
emoji_from_mention(m) ==
    LET first_colon == Find(m, ":", 0)
        second_colon == Find(m, ":", first_colon + 1)
        name == PySlice(m, first_colon + 1, second_colon)
        id == ParseInt(PySlice(m, second_colon + 1, -1))
    IN  IF id = None THEN NotAnEmoji ELSE EmojiModel(name, id, HasAColon(m))

\* ------------------------------------------------------------- state
VARIABLES
    now,        \* int(time())
    objs,       \* heap of Poll objects, in order of construction
    polls,      \* Poller.polls: key -> reference into objs
    poll_lock,  \* Poller.poll_lock: None, or the task holding it
    reaper,     \* the cleanup_polls task: [pc, wake_at]
    task,       \* the handler / caller tasks: position and locals
    ready_btns, \* keys with a 'ready::' button sent by on_poll_init
    posted,     \* keys with 'vote::' and 'end::' buttons sent by on_poll_ready
    ended,      \* history: keys for which pop_poll returned the poll
    reaped,     \* history: keys removed by a cleanup sweep
    accepted,   \* history: per Poll object, per voter, add_poll_vote calls that returned True
    request     \* the options and emojis of the /poll command under test

vars == <<now, objs, polls, poll_lock, reaper, task, ready_btns, posted, ended, reaped, accepted, request>>

\* ------------------------------------------------------------- Poll
Poll(title, created_by, created_at, expires_after, emojis, options, votes) ==
    [title |-> title, created_by |-> created_by, created_at |-> created_at,
     expires_after |-> expires_after, emojis |-> emojis, options |-> options,
     votes |-> votes, voted |-> {}]

\* created_at + expires_after, the instant discord_expire_ts shows
Deadline(p) == p.created_at + p.expires_after

is_expired_late(p, t) == t > Deadline(p) + 1
is_expired_early(p, t) == t >= Deadline(p)
\* int(time()) > self.created_at + self.expires_after, with t the clock's reading
is_expired(p, t) == t > Deadline(p)

RECURSIVE SumSeq(_)
SumSeq(s) == IF s = << >> THEN 0 ELSE s[1] + SumSeq(Tail(s))

\* ------------------------------------------------ Poller, under the lock
get_poll_any(ps, poll_id) == poll_id
\* self.polls.get(poll_id)
get_poll(ps, poll_id) == IF poll_id \in DOMAIN ps THEN ps[poll_id] ELSE None

\* self.polls[poll_id] = poll
add_poll(ps, poll_id, ref) ==
    [k \in DOMAIN ps \cup {poll_id} |-> IF k = poll_id THEN ref ELSE ps[k]]

\* what add_poll_vote returns: "False", "True", or "IndexError" when
\* p.votes[vote] raises
add_poll_vote_ret(ps, os, poll_id, vote) ==
    LET p == get_poll(ps, poll_id)
    IN  IF p = None THEN "False"
        ELSE IF PyIndex(Len(os[p].votes), vote) = None THEN "IndexError"
        ELSE "True"

add_poll_vote_objs_set(ps, os, poll_id, voter_id, vote) ==
    LET p == get_poll(ps, poll_id)
    IN  IF add_poll_vote_ret(ps, os, poll_id, vote) # "True" THEN os
        ELSE LET i == PyIndex(Len(os[p].votes), vote)
             IN  [os EXCEPT ![p].votes[i] = 1, ![p].voted = @ \cup {voter_id}]
add_poll_vote_objs_novoter(ps, os, poll_id, voter_id, vote) ==
    LET p == get_poll(ps, poll_id)
    IN  IF add_poll_vote_ret(ps, os, poll_id, vote) # "True" THEN os
        ELSE LET i == PyIndex(Len(os[p].votes), vote)
             IN  [os EXCEPT ![p].votes[i] = @ + 1]
add_poll_vote_objs_all(ps, os, poll_id, voter_id, vote) ==
    LET p == get_poll(ps, poll_id)
    IN  IF add_poll_vote_ret(ps, os, poll_id, vote) # "True" THEN os
        ELSE [os EXCEPT ![p].votes = [i \in 1..Len(@) |-> @[i] + 1], ![p].voted = @ \cup {voter_id}]
\* the heap after add_poll_vote: p.votes[vote] += 1; p.voted.add(voter_id)
add_poll_vote_objs(ps, os, poll_id, voter_id, vote) ==
    LET p == get_poll(ps, poll_id)
    IN  IF add_poll_vote_ret(ps, os, poll_id, vote) # "True" THEN os
        ELSE LET i == PyIndex(Len(os[p].votes), vote)
             IN  [os EXCEPT ![p].votes[i] = @ + 1, ![p].voted = @ \cup {voter_id}]

pop_poll_keeps(ps, poll_id) == ps
\* the dict after self.polls.pop(poll_id, None)
pop_poll(ps, poll_id) == [k \in DOMAIN ps \ {poll_id} |-> ps[k]]

\* the keys one pass of the loop body of cleanup_polls pops at time t
expired_keys(ps, os, t) == {k \in DOMAIN ps : is_expired(os[ps[k]], t)}

cleanup_polls_none(ps, os, t) == ps
\* the dict after one pass of the loop body of cleanup_polls at time t
cleanup_polls(ps, os, t) == [k \in DOMAIN ps \ expired_keys(ps, os, t) |-> ps[k]]

\* ------------------------------------------------------------- tasks
IdleTask ==
    [kind |-> "idle", pc |-> "idle", poll_id |-> None, user |-> None, vote_idx |-> 0,
     poll |-> None, ret |-> None, success |-> "none", result |-> "none", replies |-> 0]

\* the task after its handler's last step: the outcome and the replies it sent
Done(t, result, replies) ==
    [IdleTask EXCEPT !.kind = task[t].kind, !.pc = "done", !.poll_id = task[t].poll_id,
                     !.result = result, !.replies = replies]

InitState ==
    /\ now = 0
    /\ objs = << >>
    /\ polls = << >>
    /\ poll_lock = None
    /\ reaper = [pc |-> "start", wake_at |-> 0]
    /\ task = [t \in Tasks |-> IdleTask]
    /\ ready_btns = {}
    /\ posted = {}
    /\ ended = {}
    /\ reaped = {}
    /\ accepted = << >>

\* no /poll command is under test
Init == InitState /\ request = [options |-> << >>, emojis |-> [given |-> FALSE, text |-> << >>]]

\* the wall clock moves on
AdvanceTime ==
    /\ \E t \in TimePoints : t > now /\ now' = t
    /\ UNCHANGED <<objs, polls, poll_lock, reaper, task, ready_btns, posted, ended, reaped, accepted, request>>

LockAlwaysFree == TRUE
\* async with self.poll_lock: the task is given the lock when it is free
LockFree == poll_lock = None

\* the handler returned (or raised): its task is gone
Finish(t) ==
    /\ task[t].pc = "done"
    /\ task' = [task EXCEPT ![t] = IdleTask]
    /\ UNCHANGED <<now, objs, polls, poll_lock, reaper, ready_btns, posted, ended, reaped, accepted, request>>

\* ------------------------------------------------------- the reaper
StartCleanupTask ==
    /\ reaper.pc = "start"
    /\ reaper' = [reaper EXCEPT !.pc = "sweep"]
    /\ UNCHANGED <<now, objs, polls, poll_lock, task, ready_btns, posted, ended, reaped, accepted, request>>

\* one pass of the loop body: the for loop under the lock, then asyncio.sleep(60)
CleanupSweep ==
    /\ reaper.pc = "sweep"
    /\ LockFree
    /\ polls' = cleanup_polls(polls, objs, now)
    /\ reaped' = reaped \cup (DOMAIN polls \ DOMAIN polls')
    /\ reaper' = [pc |-> "sleep", wake_at |-> now + CLEANUP_SLEEP]
    /\ UNCHANGED <<now, objs, poll_lock, task, ready_btns, posted, ended, accepted, request>>

ReaperWake ==
    /\ reaper.pc = "sleep"
    /\ now >= reaper.wake_at
    /\ reaper' = [pc |-> "sweep", wake_at |-> 0]
    /\ UNCHANGED <<now, objs, polls, poll_lock, task, ready_btns, posted, ended, reaped, accepted, request>>

\* ---------------------------------------------------- on_poll_init
\* the 'emojis' option of the slash command: absent, or a string
NoEmojis == [given |-> FALSE, text |-> << >>]
GivenEmojis(text) == [given |-> TRUE, text |-> text]
\* Python truth of the option: neither None nor ''
Truthy(emojis) == emojis.given /\ emojis.text # << >>

ParseOptionsAll(options_in) == StripAll(SplitComma(options_in))
\* options = [i.strip() for i in ...split(',')[:5]]
ParseOptions(options_in) == SplitStrip(options_in, MAX_OPTIONS)

\* if emojis and len(emojis) < option_len: len of the string, in characters
TooFewEmojis(emojis, option_len) == Truthy(emojis) /\ Len(emojis.text) < option_len

\* one entry of the emojis list: an EmojiModel, or NotAnEmoji when the handler rejects it
ParseEmoji(e) == IF CUSTOM_EMOJI_REGEX(e) THEN emoji_from_mention(e) ELSE UnicodeEmoji(e)

\* emoji_list, for an input the handler does not reject
EmojiList(emojis, option_len) ==
    IF Truthy(emojis)
    THEN LET es == SplitStrip(emojis.text, option_len)
         IN  [i \in 1..Len(es) |-> ParseEmoji(es[i])]
    ELSE LET ds == Take(DEFAULT_EMOJIS, option_len)
         IN  [i \in 1..Len(ds) |-> UnicodeEmoji(ds[i])]

\* a custom emoji for which emoji_from_mention returns False
BadCustomEmoji(emojis, option_len) ==
    /\ Truthy(emojis)
    /\ LET es == SplitStrip(emojis.text, option_len)
       IN  \E i \in 1..Len(es) : CUSTOM_EMOJI_REGEX(es[i]) /\ emoji_from_mention(es[i]) = NotAnEmoji

\* whether on_poll_init answers with an error and returns before building the Poll
InitRejects(options_in, emojis) ==
    LET option_len == Len(ParseOptions(options_in))
    IN  \/ option_len < MIN_OPTIONS
        \/ TooFewEmojis(emojis, option_len)
        \/ BadCustomEmoji(emojis, option_len)

\* the Poll on_poll_init builds
InitPoll(title, user, created_at, options_in, emojis, expires_in) ==
    LET options == ParseOptions(options_in)
        option_len == Len(options)
    IN  Poll(title, user, created_at,
             IF expires_in = None THEN DEFAULT_EXPIRES ELSE expires_in,
             EmojiList(emojis, option_len), options, [i \in 1..option_len |-> 0])

\* str(uuid.uuid4()): a key no poll has had
Uuid4 == Len(objs) + 1

\* a new handler runs in a new task: the first free slot
Free(t) == task[t].pc = "idle" /\ \A s \in Tasks : s < t => task[s].pc # "idle"

\* on_poll_init up to its first await: the error reply, or the call of add_poll
on_poll_init(t, user, title, options_in, emojis, expires_in) ==
    /\ Free(t)
    /\ IF InitRejects(options_in, emojis)
       THEN /\ task' = [task EXCEPT ![t] = [IdleTask EXCEPT !.kind = "init", !.pc = "done",
                                              !.result = "rejected", !.replies = 1]]
            /\ UNCHANGED <<objs, accepted>>
       ELSE /\ Len(objs) < MaxPolls
            /\ objs' = Append(objs, InitPoll(title, user, now, options_in, emojis, expires_in))
            /\ accepted' = Append(accepted, [u \in Users |-> 0])
            /\ task' = [task EXCEPT ![t] = [IdleTask EXCEPT !.kind = "init", !.user = user,
                                              !.pc = "add_poll", !.poll_id = Uuid4,
                                              !.poll = Len(objs) + 1]]
    /\ UNCHANGED <<now, polls, poll_lock, reaper, ready_btns, posted, ended, reaped, request>>

\* add_poll under the lock, then the reply with the 'ready::' button
InitAddPoll(t) ==
    /\ task[t].kind = "init" /\ task[t].pc = "add_poll"
    /\ LockFree
    /\ polls' = add_poll(polls, task[t].poll_id, task[t].poll)
    /\ ready_btns' = ready_btns \cup {task[t].poll_id}
    /\ task' = [task EXCEPT ![t] = Done(t, "created", 1)]
    /\ UNCHANGED <<now, objs, poll_lock, reaper, posted, ended, reaped, accepted, request>>

\* --------------------------------------------------- on_poll_ready
\* poll.emojis[i] for i in range(len(poll.options)) raises IndexError
ButtonsRaise(p) == Len(p.emojis) < Len(p.options)

\* a press of the button 'ready::<poll_id>': get_poll under the lock, then the
\* message with the vote and end buttons
on_poll_ready(t, poll_id) ==
    /\ Free(t)
    /\ poll_id \in ready_btns
    /\ LockFree
    /\ LET poll == get_poll(polls, poll_id)
           me == [IdleTask EXCEPT !.kind = "ready", !.pc = "done", !.poll_id = poll_id, !.replies = 1]
       IN  IF poll = None
           THEN /\ task' = [task EXCEPT ![t] = [me EXCEPT !.result = "not_found"]]
                /\ UNCHANGED posted
           ELSE IF ButtonsRaise(objs[poll])
           THEN /\ task' = [task EXCEPT ![t] = [me EXCEPT !.result = "exception", !.replies = 0]]
                /\ UNCHANGED posted
           ELSE /\ task' = [task EXCEPT ![t] = [me EXCEPT !.result = "posted"]]
                /\ posted' = posted \cup {poll_id}
    /\ UNCHANGED <<now, objs, polls, poll_lock, reaper, ready_btns, ended, reaped, accepted, request>>

\* ---------------------------------------------------- on_poll_vote
\* vote requests in flight on a key
Voting(poll_id) ==
    Cardinality({t \in Tasks : task[t].kind = "vote" /\ task[t].pc = "add_poll_vote"
                               /\ task[t].poll_id = poll_id})

\* votes counted so far on the Poll a key names
Counted(poll_id) ==
    IF poll_id \in DOMAIN polls THEN SumSeq(objs[polls[poll_id]].votes) ELSE 0

\* the indices of the vote buttons on_poll_ready made for a poll it found
VoteButtons(p) == 0..(Len(p.options) - 1)

AlreadyVotedNever(user, p) == FALSE
\* event.member.user.id in poll.voted
AlreadyVoted(user, p) == user \in p.voted

\* a press of the button 'vote::<poll_id>::<vote_idx>' by user: get_poll under
\* the lock, then the two checks, up to the call of add_poll_vote
on_poll_vote(t, user, poll_id, vote_idx) ==
    /\ Free(t)
    /\ poll_id \in posted
    /\ vote_idx \in VoteButtons(objs[poll_id])
    /\ Counted(poll_id) + Voting(poll_id) < MaxVotes
    /\ LockFree
    /\ LET poll == get_poll(polls, poll_id)
           me == [IdleTask EXCEPT !.kind = "vote", !.pc = "done", !.poll_id = poll_id, !.replies = 1]
       IN  IF poll = None
           THEN task' = [task EXCEPT ![t] = [me EXCEPT !.result = "not_found"]]
           ELSE IF AlreadyVoted(user, objs[poll])
           THEN task' = [task EXCEPT ![t] = [me EXCEPT !.result = "already_voted"]]
           ELSE task' = [task EXCEPT ![t] = [me EXCEPT !.pc = "add_poll_vote", !.replies = 0, !.user = user,
                                                       !.vote_idx = vote_idx, !.poll = poll]]
    /\ UNCHANGED <<now, objs, polls, poll_lock, reaper, ready_btns, posted, ended, reaped, accepted, request>>

\* the history of accepted votes after add_poll_vote
Accept(ps, os, poll_id, voter_id, vote) ==
    IF add_poll_vote_ret(ps, os, poll_id, vote) = "True"
    THEN [accepted EXCEPT ![get_poll(ps, poll_id)][voter_id] = @ + 1]
    ELSE accepted

\* the replies on_poll_vote sends after add_poll_vote returned success
VoteReplies(success) == IF success = "True" THEN 1 ELSE IF success = "False" THEN 2 ELSE 0

\* add_poll_vote under the lock, then the rest of on_poll_vote
VoteAddPollVote(t) ==
    /\ task[t].kind = "vote" /\ task[t].pc = "add_poll_vote"
    /\ LockFree
    /\ LET success == add_poll_vote_ret(polls, objs, task[t].poll_id, task[t].vote_idx)
       IN  /\ objs' = add_poll_vote_objs(polls, objs, task[t].poll_id, task[t].user, task[t].vote_idx)
           /\ accepted' = Accept(polls, objs, task[t].poll_id, task[t].user, task[t].vote_idx)
           /\ task' = [task EXCEPT ![t] =
                  [Done(t, CASE success = "True" -> "accepted"
                             [] success = "False" -> "expired"
                             [] OTHER -> "exception", VoteReplies(success))
                   EXCEPT !.success = success]]
    /\ UNCHANGED <<now, polls, poll_lock, reaper, ready_btns, posted, ended, reaped, request>>

\* ----------------------------------------------------- on_poll_end
EndAllowedAny(user, p) == TRUE
\* the negation of: event.member.user.id != poll.created_by
EndAllowed(user, p) == user = p.created_by

\* a press of the button 'end::<poll_id>::<created_by>' by user: get_poll under
\* the lock, then the two checks, up to the call of pop_poll
on_poll_end(t, user, poll_id) ==
    /\ Free(t)
    /\ poll_id \in posted
    /\ LockFree
    /\ LET poll == get_poll(polls, poll_id)
           me == [IdleTask EXCEPT !.kind = "end", !.pc = "done", !.poll_id = poll_id, !.replies = 1]
       IN  IF poll = None
           THEN task' = [task EXCEPT ![t] = [me EXCEPT !.result = "not_found"]]
           ELSE IF ~EndAllowed(user, objs[poll])
           THEN task' = [task EXCEPT ![t] = [me EXCEPT !.result = "forbidden"]]
           ELSE task' = [task EXCEPT ![t] = [me EXCEPT !.pc = "pop_poll", !.replies = 0,
                                                       !.user = user, !.poll = poll]]
    /\ UNCHANGED <<now, objs, polls, poll_lock, reaper, ready_btns, posted, ended, reaped, accepted, request>>

\* pop_poll under the lock, then the final tally sent with interaction.update
EndPopPoll(t) ==
    /\ task[t].kind = "end" /\ task[t].pc = "pop_poll"
    /\ LockFree
    /\ polls' = pop_poll(polls, task[t].poll_id)
    /\ ended' = IF task[t].poll_id \in DOMAIN polls THEN ended \cup {task[t].poll_id} ELSE ended
    /\ task' = [task EXCEPT ![t] = [Done(t, "ended", 1) EXCEPT !.ret = get_poll(polls, task[t].poll_id)]]
    /\ UNCHANGED <<now, objs, poll_lock, reaper, ready_btns, posted, reaped, accepted, request>>

\* ------------------------------------- direct callers of the Poller
\* A caller awaits one Poller method at a time: the call is given the free
\* lock, runs the method's body and returns.  The caller's task keeps the
\* method's name and what it returned.
CALLER == CHOOSE t \in Tasks : \A s \in Tasks : t <= s
Calling == task[CALLER].pc \in {"idle", "done"} /\ LockFree
Returned(kind) == [IdleTask EXCEPT !.kind = kind, !.pc = "done", !.result = "returned"]

\* the users who create polls, and the created_at a direct caller passes
Creators == {CHOOSE u \in Users : \A v \in Users : u <= v}
CreatedAtInputs == {0, 1}

\* add_poll(poll_id, poll) with a new Poll of two options
call_add_poll(poll_id, user, created_at, expires_after) ==
    /\ Calling
    /\ Len(objs) < MaxCallerPolls
    /\ objs' = Append(objs, InitPoll("T", user, created_at, <<"a", ",", "b">>, NoEmojis, expires_after))
    /\ accepted' = Append(accepted, [u \in Users |-> 0])
    /\ polls' = add_poll(polls, poll_id, Len(objs) + 1)
    /\ task' = [task EXCEPT ![CALLER] = Returned("add_poll")]
    /\ UNCHANGED <<now, poll_lock, reaper, ready_btns, posted, ended, reaped, request>>

call_get_poll(poll_id) ==
    /\ Calling
    /\ task' = [task EXCEPT ![CALLER] = [Returned("get_poll") EXCEPT !.ret = get_poll(polls, poll_id)]]
    /\ UNCHANGED <<now, objs, polls, poll_lock, reaper, ready_btns, posted, ended, reaped, accepted, request>>

\* add_poll_vote(poll_id, voter_id, vote): it returns, or the IndexError leaves the call
call_add_poll_vote(poll_id, voter_id, vote) ==
    /\ Calling
    /\ Counted(poll_id) < MaxVotes
    /\ LET success == add_poll_vote_ret(polls, objs, poll_id, vote)
       IN  /\ objs' = add_poll_vote_objs(polls, objs, poll_id, voter_id, vote)
           /\ accepted' = Accept(polls, objs, poll_id, voter_id, vote)
           /\ task' = [task EXCEPT ![CALLER] =
                  [Returned("add_poll_vote")
                   EXCEPT !.success = success,
                          !.result = IF success = "IndexError" THEN "exception" ELSE "returned"]]
    /\ UNCHANGED <<now, polls, poll_lock, reaper, ready_btns, posted, ended, reaped, request>>

call_pop_poll(poll_id) ==
    /\ Calling
    /\ polls' = pop_poll(polls, poll_id)
    /\ ended' = IF poll_id \in DOMAIN polls THEN ended \cup {poll_id} ELSE ended
    /\ task' = [task EXCEPT ![CALLER] = [Returned("pop_poll") EXCEPT !.ret = get_poll(polls, poll_id)]]
    /\ UNCHANGED <<now, objs, poll_lock, reaper, ready_btns, posted, reaped, accepted, request>>

\* ------------------------------ the Poller's methods, lock by lock
\* Each method is a coroutine of a task: it waits at "async with
\* self.poll_lock" until it is given the lock, runs its body statement by
\* statement while holding it, and leaves the with block, which releases the
\* lock, on return and on exception alike.
REAPER == NumTasks + 1
LockInputs == {0, 2}
Methods == {"add_poll", "get_poll", "add_poll_vote", "pop_poll"}

\* the lock after __aexit__ of "async with self.poll_lock", whatever the outcome
ExitKeepsOnFalse(holder, outcome) == IF outcome = "False" THEN holder ELSE None
Exit(holder, outcome) == None

\* votes counted and vote calls in flight on a key
Pending(poll_id) ==
    Cardinality({t \in Tasks : task[t].kind = "add_poll_vote" /\ task[t].pc \in {"acquire", "locked"}
                               /\ task[t].poll_id = poll_id})

\* a task calls a method: it reaches "async with self.poll_lock"
Invoke(t, kind, poll_id, user, vote) ==
    /\ Free(t)
    /\ kind = "add_poll" => Len(objs) < MaxPolls
    /\ kind = "add_poll_vote" => Counted(poll_id) + Pending(poll_id) < MaxVotes
    /\ IF kind = "add_poll"
       THEN /\ \E x \in ExpiresInputs :
                   objs' = Append(objs, InitPoll("T", user, now, <<"a", ",", "b">>, NoEmojis, x))
            /\ accepted' = Append(accepted, [u \in Users |-> 0])
       ELSE UNCHANGED <<objs, accepted>>
    /\ task' = [task EXCEPT ![t] =
           [IdleTask EXCEPT !.kind = kind, !.pc = "acquire", !.poll_id = poll_id,
                            !.user = IF kind = "add_poll_vote" THEN user ELSE None,
                            !.vote_idx = IF kind = "add_poll_vote" THEN vote ELSE 0,
                            !.poll = IF kind = "add_poll" THEN Len(objs) + 1 ELSE None]]
    /\ UNCHANGED <<now, polls, poll_lock, reaper, ready_btns, posted, ended, reaped, request>>

\* __aenter__: the waiting task is given the free lock
Acquire(t) ==
    /\ task[t].pc = "acquire"
    /\ LockFree
    /\ poll_lock' = t
    /\ task' = [task EXCEPT ![t].pc = "locked"]
    /\ UNCHANGED <<now, objs, polls, reaper, ready_btns, posted, ended, reaped, accepted, request>>

\* the method returned ret / success, or raised
Leave(t, ret, success) ==
    [IdleTask EXCEPT !.kind = task[t].kind, !.pc = "done", !.poll_id = task[t].poll_id,
                     !.ret = ret, !.success = success,
                     !.result = IF success = "IndexError" THEN "exception" ELSE "returned"]

\* return self.polls.get(poll_id)
LockedGetPoll(t) ==
    /\ task[t].pc = "locked" /\ task[t].kind = "get_poll" /\ poll_lock = t
    /\ task' = [task EXCEPT ![t] = Leave(t, get_poll(polls, task[t].poll_id), "none")]
    /\ poll_lock' = Exit(t, "none")
    /\ UNCHANGED <<now, objs, polls, reaper, ready_btns, posted, ended, reaped, accepted, request>>

\* self.polls[poll_id] = poll
LockedAddPoll(t) ==
    /\ task[t].pc = "locked" /\ task[t].kind = "add_poll" /\ poll_lock = t
    /\ polls' = add_poll(polls, task[t].poll_id, task[t].poll)
    /\ task' = [task EXCEPT ![t] = Leave(t, None, "none")]
    /\ poll_lock' = Exit(t, "none")
    /\ UNCHANGED <<now, objs, reaper, ready_btns, posted, ended, reaped, accepted, request>>

\* p = self.polls.get(poll_id); if not p: return False; p.votes[vote] += 1
LockedVoteIncrement(t) ==
    /\ task[t].pc = "locked" /\ task[t].kind = "add_poll_vote" /\ poll_lock = t
    /\ LET success == add_poll_vote_ret(polls, objs, task[t].poll_id, task[t].vote_idx)
           p == get_poll(polls, task[t].poll_id)
       IN  IF success = "True"
           THEN /\ objs' = [objs EXCEPT ![p].votes[PyIndex(Len(objs[p].votes), task[t].vote_idx)] = @ + 1]
                /\ task' = [task EXCEPT ![t].pc = "voted", ![t].poll = p]
                /\ UNCHANGED poll_lock
           ELSE /\ task' = [task EXCEPT ![t] = Leave(t, None, success)]
                /\ poll_lock' = Exit(t, success)
                /\ UNCHANGED objs
    /\ UNCHANGED <<now, polls, reaper, ready_btns, posted, ended, reaped, accepted, request>>

\* p.voted.add(voter_id); return True
LockedVoteAdd(t) ==
    /\ task[t].pc = "voted" /\ poll_lock = t
    /\ objs' = [objs EXCEPT ![task[t].poll].voted = @ \cup {task[t].user}]
    /\ accepted' = [accepted EXCEPT ![task[t].poll][task[t].user] = @ + 1]
    /\ task' = [task EXCEPT ![t] = Leave(t, None, "True")]
    /\ poll_lock' = Exit(t, "True")
    /\ UNCHANGED <<now, polls, reaper, ready_btns, posted, ended, reaped, request>>

\* return self.polls.pop(poll_id, None)
LockedPopPoll(t) ==
    /\ task[t].pc = "locked" /\ task[t].kind = "pop_poll" /\ poll_lock = t
    /\ polls' = pop_poll(polls, task[t].poll_id)
    /\ ended' = IF task[t].poll_id \in DOMAIN polls THEN ended \cup {task[t].poll_id} ELSE ended
    /\ task' = [task EXCEPT ![t] = Leave(t, get_poll(polls, task[t].poll_id), "none")]
    /\ poll_lock' = Exit(t, "none")
    /\ UNCHANGED <<now, objs, reaper, ready_btns, posted, reaped, accepted, request>>

\* cleanup_polls reaches "async with self.poll_lock" and is given the lock
ReaperAcquire ==
    /\ reaper.pc = "sweep"
    /\ LockFree
    /\ poll_lock' = REAPER
    /\ reaper' = [reaper EXCEPT !.pc = "locked"]
    /\ UNCHANGED <<now, objs, polls, task, ready_btns, posted, ended, reaped, accepted, request>>

\* one turn of the for loop that finds its key expired: self.polls.pop(k)
ReaperPop ==
    /\ reaper.pc = "locked" /\ poll_lock = REAPER
    /\ \E k \in expired_keys(polls, objs, now) :
          /\ polls' = pop_poll(polls, k)
          /\ reaped' = reaped \cup {k}
    /\ UNCHANGED <<now, objs, poll_lock, reaper, task, ready_btns, posted, ended, accepted, request>>

\* the for loop is over: the with block is left, then await asyncio.sleep(60)
ReaperRelease ==
    /\ reaper.pc = "locked" /\ poll_lock = REAPER
    /\ expired_keys(polls, objs, now) = {}
    /\ poll_lock' = Exit(REAPER, "none")
    /\ reaper' = [pc |-> "sleep", wake_at |-> now + CLEANUP_SLEEP]
    /\ UNCHANGED <<now, objs, polls, task, ready_btns, posted, ended, reaped, accepted, request>>

\* the last instant of TimePoints stands for all later time: a sleep that is
\* still running then ends
LastInstant == CHOOSE t \in TimePoints : \A s \in TimePoints : s <= t
ReaperWakeLate ==
    /\ reaper.pc = "sleep"
    /\ now = LastInstant /\ now < reaper.wake_at
    /\ reaper' = [pc |-> "sweep", wake_at |-> 0]
    /\ UNCHANGED <<now, objs, polls, poll_lock, task, ready_btns, posted, ended, reaped, accepted, request>>

\* --------------------------------------------------- specifications
Titles == {"T"}
OptionInputs == {<<"a", ",", "b">>}
EmojiInputs == {NoEmojis}

Reaper == StartCleanupTask \/ CleanupSweep \/ ReaperWake

\* the bot: the four handlers, the cleanup task and the clock
Next ==
    \/ AdvanceTime
    \/ Reaper
    \/ \E t \in Tasks : Finish(t)
    \/ \E t \in Tasks, u \in Creators, title \in Titles, o \in OptionInputs, e \in EmojiInputs,
          x \in ExpiresInputs : on_poll_init(t, u, title, o, e, x)
    \/ \E t \in Tasks : InitAddPoll(t)
    \/ \E t \in Tasks, k \in Ids : on_poll_ready(t, k)
    \/ \E t \in Tasks, u \in Users, k \in Ids, i \in 0..(MAX_OPTIONS - 1) : on_poll_vote(t, u, k, i)
    \/ \E t \in Tasks : VoteAddPollVote(t)
    \/ \E t \in Tasks, u \in Users, k \in Ids : on_poll_end(t, u, k)
    \/ \E t \in Tasks : EndPopPoll(t)

Spec == Init /\ [][Next]_vars

\* the Poller class under callers that pass any key, voter and index
NextPoller ==
    \/ AdvanceTime
    \/ Reaper
    \/ \E k \in Ids, u \in Creators, c \in CreatedAtInputs, x \in ExpiresInputs :
          call_add_poll(k, u, c, x)
    \/ \E k \in Ids : call_get_poll(k)
    \/ \E k \in Ids, u \in Users, i \in VoteIndexInputs : call_add_poll_vote(k, u, i)
    \/ \E k \in Ids : call_pop_poll(k)

SpecPoller == Init /\ [][NextPoller]_vars

\* on_poll_init under every options and emojis string of up to MaxStrLen characters
WideOptionInputs == StringsUpTo({"a", ","}, MaxStrLen)
WideEmojiInputs == {NoEmojis} \cup {GivenEmojis(x) : x \in StringsUpTo({"x", ","}, MaxStrLen)}

\* options inputs of six and seven entries
ManyOptionInputs ==
    {<<"a", ",", "b", ",", "a", ",", " ", "b", ",", "a", ",", "b">>,
     <<",", "b", ",", "a", ",", ",", "b", ",", "a">>}
\* emojis inputs with custom-emoji mentions, well formed and not
RichEmojiInputs ==
    {GivenEmojis(x) : x \in {<<"<", ":", "a", ":", "1", ">", ",", "x">>,
                             <<"<", "a", ":", "b", ":", "1", "2", ">", ",", "<", ":", "a", ":", "2", ">">>,
                             <<"<", ":", "a", ":", ">", ",", "x">>,
                             <<"x", ",", "<", ":", "a", ":", "b", ">">>,
                             <<"<", ":", ":", "1", ">", ",", "<", ":", "a", ":", "1", ">">>}}
InitOptionInputs == WideOptionInputs \cup ManyOptionInputs
InitEmojiInputs == WideEmojiInputs \cup RichEmojiInputs

NextInit ==
    \/ \E t \in Tasks : Finish(t)
    \/ \E t \in Tasks, u \in Creators, title \in Titles, o \in WideOptionInputs,
          e \in WideEmojiInputs, x \in ExpiresInputs : on_poll_init(t, u, title, o, e, x)
    \/ \E t \in Tasks : InitAddPoll(t)
    \/ \E t \in Tasks, k \in Ids : on_poll_ready(t, k)
    \/ \E t \in Tasks, u \in Creators, k \in Ids, i \in 0..(MAX_OPTIONS - 1) : on_poll_vote(t, u, k, i)
    \/ \E t \in Tasks : VoteAddPollVote(t)
    \/ \E t \in Tasks, u \in Creators, k \in Ids : on_poll_end(t, u, k)
    \/ \E t \in Tasks : EndPopPoll(t)

SpecInit == Init /\ [][NextInit]_vars

\* on_poll_init on one /poll command, drawn at the start and sent any number
\* of times
InitRequest ==
    /\ InitState
    /\ \E o \in InitOptionInputs, e \in InitEmojiInputs : request = [options |-> o, emojis |-> e]

NextRequest ==
    \/ \E t \in Tasks : Finish(t)
    \/ \E t \in Tasks, u \in Creators, title \in Titles, x \in ExpiresInputs :
          on_poll_init(t, u, title, request.options, request.emojis, x)
    \/ \E t \in Tasks : InitAddPoll(t)
    \/ \E t \in Tasks, k \in Ids : on_poll_ready(t, k)

SpecRequest == InitRequest /\ [][NextRequest]_vars

\* the Poller's methods called by concurrent tasks, with the lock explicit
TaskStep(t) ==
    \/ Acquire(t)
    \/ LockedGetPoll(t)
    \/ LockedAddPoll(t)
    \/ LockedVoteIncrement(t)
    \/ LockedVoteAdd(t)
    \/ LockedPopPoll(t)

ReaperLocked == ReaperPop \/ ReaperRelease

NextLock ==
    \/ AdvanceTime
    \/ StartCleanupTask
    \/ ReaperAcquire
    \/ ReaperLocked
    \/ ReaperWake
    \/ ReaperWakeLate
    \/ \E t \in Tasks : Finish(t)
    \/ \E t \in Tasks, m \in Methods, k \in 1..MaxPolls, u \in Users, i \in LockInputs :
          Invoke(t, m, k, u, i)
    \/ \E t \in Tasks : TaskStep(t)

\* The event loop runs every task that can run, so a task holding the lock
\* goes on to leave it; asyncio.Lock wakes its waiters first come, first
\* served, so a waiting task is given the lock.
FairLock ==
    /\ \A t \in Tasks : WF_vars(LockedGetPoll(t) \/ LockedAddPoll(t) \/ LockedVoteIncrement(t)
                                 \/ LockedVoteAdd(t) \/ LockedPopPoll(t))
    /\ \A t \in Tasks : SF_vars(Acquire(t))
    /\ WF_vars(ReaperLocked)

SpecLock == Init /\ [][NextLock]_vars /\ FairLock

\* the bot with time that goes on and a reaper task that is scheduled
NextLive == Next \/ ReaperWakeLate

\* the event loop runs the cleanup task whenever it can run, and the clock
\* moves on
FairReaper ==
    /\ WF_vars(CleanupSweep)
    /\ WF_vars(ReaperWake \/ ReaperWakeLate)
    /\ WF_vars(AdvanceTime)

SpecLive == Init /\ [][NextLive]_vars /\ FairReaper

\* ------------------------------------------------------------ claims
\* the Poll a key names, for a key of the registry
PollOf(k) == objs[polls[k]]
Refs == 1..Len(objs)

\* a step in which a handler's get_poll(k) does not return not-found
GetFinds(k) ==
    \/ \E t \in Tasks : on_poll_ready(t, k) /\ task'[t].result # "not_found"
    \/ \E t \in Tasks, u \in Users, i \in 0..(MAX_OPTIONS - 1) :
          on_poll_vote(t, u, k, i) /\ task'[t].result # "not_found"
    \/ \E t \in Tasks, u \in Users : on_poll_end(t, u, k) /\ task'[t].result # "not_found"

\* a step in which a handler's add_poll_vote(k, ...) does not return False
VoteFinds(k) ==
    \E t \in Tasks : VoteAddPollVote(t) /\ task[t].poll_id = k /\ task'[t].success # "False"

\* a step in which a handler's pop_poll(k) returns a poll
PopFinds(k) ==
    \E t \in Tasks : EndPopPoll(t) /\ task[t].poll_id = k /\ task'[t].ret # None

\* a step that is one pass of the loop body of cleanup_polls
SweepStep == reaper.pc = "sweep" /\ reaper'.pc = "sleep"

\* C1: no double voting: for every poll and every voter, at most one vote
\* request by that voter is accepted (add_poll_vote returns True for it).
NoDoubleVoting == \A r \in Refs : \A u \in Users : accepted[r][u] <= 1

\* C2: for every poll of the registry every counter is >= 0 and the sum of the
\* counters is at most the number of voters in voted.
VotesWithinVoters ==
    \A k \in DOMAIN polls :
        /\ \A i \in 1..Len(PollOf(k).votes) : PollOf(k).votes[i] >= 0
        /\ SumSeq(PollOf(k).votes) <= Cardinality(PollOf(k).voted)

\* C3: once pop_poll(k) has returned the poll, every later get_poll(k),
\* add_poll_vote(k, ...) and pop_poll(k) returns not-found; so of two
\* concurrent pop_poll(k) at most one returns the poll.
EndIsVisible ==
    [][\A k \in ended : ~GetFinds(k) /\ ~VoteFinds(k) /\ ~PopFinds(k)]_vars

\* two on_poll_end handlers raced: the poll is ended and the later pop_poll returned None
EndIsVisibleWitness ==
    /\ ended # {}
    /\ \E t \in Tasks : task[t].kind = "end" /\ task[t].result = "ended" /\ task[t].ret = None
                        /\ task[t].poll_id \in ended

\* C4: a sweep at time now removes every poll with created_at + expires_after
\* < now, and every later get_poll / add_poll_vote on a reaped key returns
\* not-found.
ExpiryRemoval ==
    [][/\ SweepStep => \A k \in DOMAIN polls : Deadline(PollOf(k)) < now => k \notin DOMAIN polls'
       /\ \A k \in reaped : ~GetFinds(k) /\ ~VoteFinds(k)]_vars

\* a poll was reaped and a vote request that had found it got False from add_poll_vote
ExpiryRemovalWitness ==
    /\ reaped # {}
    /\ \E t \in Tasks : task[t].kind = "vote" /\ task[t].result = "expired" /\ task[t].poll_id \in reaped

\* C5: a sweep at time now keeps every poll with created_at + expires_after >=
\* now, the boundary included, and changes no votes and no voted.
LivePollsKept ==
    [][SweepStep =>
          /\ \A k \in DOMAIN polls : Deadline(PollOf(k)) >= now =>
                 k \in DOMAIN polls' /\ polls'[k] = polls[k]
          /\ objs' = objs]_vars

\* a sweep ran at the very deadline of a poll that has a vote, and the poll is there
LivePollsKeptWitness ==
    /\ reaper.pc = "sleep" /\ reaper.wake_at = now + CLEANUP_SLEEP
    /\ \E k \in DOMAIN polls : Deadline(PollOf(k)) = now /\ SumSeq(PollOf(k).votes) > 0

\* C6: a key removed by pop_poll or by a sweep never names a poll again.
NoResurrection == \A k \in ended \cup reaped : k \notin DOMAIN polls

\* C7: add_poll_vote on a poll of the registry with an index outside
\* [0, len(options)) returns a value (raises nothing), does not accept the
\* vote, and changes no poll and not the registry.
InvalidIndexRejected ==
    [][\A k \in DOMAIN polls, v \in Users, i \in VoteIndexInputs :
          (call_add_poll_vote(k, v, i) /\ (i < 0 \/ i >= Len(PollOf(k).options))) =>
              /\ task'[CALLER].result = "returned"
              /\ task'[CALLER].success # "True"
              /\ objs' = objs /\ polls' = polls]_vars

\* C8: every poll on_poll_init stored has as many emojis and as many counters
\* as options.
OptionsAligned ==
    \A k \in DOMAIN polls :
        /\ Len(PollOf(k).options) = Len(PollOf(k).emojis)
        /\ Len(PollOf(k).options) = Len(PollOf(k).votes)

\* the voters whose vote requests on a Poll object were accepted
Accepted(r) == {u \in Users : accepted[r][u] > 0}

\* C9: for a poll of the registry whose accepted vote requests came from N
\* pairwise distinct voters, sum(votes) = N and len(voted) = N.
VoteConservation ==
    \A k \in DOMAIN polls :
        (\A u \in Users : accepted[polls[k]][u] <= 1) =>
            /\ SumSeq(PollOf(k).votes) = Cardinality(Accepted(polls[k]))
            /\ Cardinality(PollOf(k).voted) = Cardinality(Accepted(polls[k]))

\* two distinct voters were accepted on a poll while another poll is in the registry
VoteConservationWitness ==
    \E k \in DOMAIN polls :
        /\ \A u \in Users : accepted[polls[k]][u] = 1
        /\ Cardinality(DOMAIN polls) > 1

\* C10: on_poll_end calls pop_poll only for the poll's creator; a request by
\* anyone else ends without the call and leaves the registry and every poll
\* as they were.
EndOnlyByCreator ==
    [][/\ \A t \in Tasks : EndPopPoll(t) => task[t].user = objs[task[t].poll].created_by
       /\ \A t \in Tasks, u \in Users, k \in DOMAIN polls :
              (on_poll_end(t, u, k) /\ u # PollOf(k).created_by) =>
                  /\ task'[t].pc = "done" /\ task'[t].result = "forbidden"
                  /\ polls' = polls /\ objs' = objs]_vars

\* someone else's end request was refused and the poll, with a vote, is in the registry
EndOnlyByCreatorWitness ==
    \E t \in Tasks :
        /\ task[t].kind = "end" /\ task[t].result = "forbidden"
        /\ task[t].poll_id \in DOMAIN polls
        /\ SumSeq(PollOf(task[t].poll_id).votes) > 0

\* the labels on_poll_init reads from the emojis input, for option_len options
Labels(emojis, option_len) ==
    IF Truthy(emojis) THEN SplitStrip(emojis.text, option_len) ELSE << >>

\* a label written as a custom-emoji mention, <...:...>
RichMarker(e) ==
    /\ Len(e) >= 2 /\ e[1] = "<" /\ e[Len(e)] = ">"
    /\ \E i \in 1..Len(e) : e[i] = ":"

\* the command under test has a label that is a custom-emoji mention not of
\* the form <a?:name:digits>
MalformedRequest ==
    LET labels == Labels(request.emojis, Len(SplitStrip(request.options, MAX_OPTIONS)))
    IN  \E i \in 1..Len(labels) : RichMarker(labels[i]) /\ ~CUSTOM_EMOJI_REGEX(labels[i])

\* every on_poll_init so far ended with the error reply: no Poll was built and
\* add_poll was not called
AllRejected ==
    /\ objs = << >> /\ polls = << >>
    /\ \A t \in Tasks : task[t].kind = "init" => task[t].result = "rejected" /\ task[t].replies = 1

\* C11: a request one of whose labels is a custom-emoji mention that does not
\* match <a?:name:digits> is rejected: no Poll is built, add_poll is not
\* called and the registry stays unchanged.
MalformedLabelsRejected == MalformedRequest => AllRejected

\* C12: every stored poll has 2 to 5 options; an options input of fewer than 2
\* entries is rejected and no poll is stored; an options input of more than 5
\* entries is accepted, unless the request is rejected for its emojis, and
\* the poll has its first 5 entries in order.
OptionCount ==
    LET entries == SplitComma(request.options)
    IN  /\ \A k \in DOMAIN polls : Len(PollOf(k).options) >= 2 /\ Len(PollOf(k).options) <= 5
        /\ Len(entries) < 2 => AllRejected
        /\ (Len(entries) > 5 /\ ~TooFewEmojis(request.emojis, 5) /\ ~BadCustomEmoji(request.emojis, 5)) =>
               /\ \A t \in Tasks : task[t].result # "rejected"
               /\ \A r \in Refs : /\ Len(objs[r].options) = 5
                                  /\ \A i \in 1..5 : objs[r].options[i] = Strip(entries[i])

\* a poll of five options is stored for a command of six entries, the fourth
\* written with a blank
OptionCountWitness ==
    /\ Len(SplitComma(request.options)) = 6
    /\ \E k \in DOMAIN polls :
           /\ Len(PollOf(k).options) = 5
           /\ PollOf(k).options[4] = <<"b">>
           /\ PollOf(k).options[1] = <<"a">>

\* the tasks inside a body of "async with self.poll_lock", the reaper included
InCritical ==
    {t \in Tasks : task[t].pc \in {"locked", "voted"}}
        \cup (IF reaper.pc = "locked" THEN {REAPER} ELSE {})

\* a step of the body that a task, or the reaper, is inside
BodyStep(h) == IF h = REAPER THEN ReaperLocked ELSE TaskStep(h)

\* C13: at most one of add_poll, get_poll, add_poll_vote, pop_poll and the
\* sweep is inside the critical section and it is the holder of poll_lock;
\* the lock is held only inside a body, so not by a task that waits for I/O
\* or sleeps; and while a body is part-way (an incremented counter whose voter
\* is not yet recorded, a sweep not yet finished) no other task reads or
\* writes the registry or a poll.
MutualExclusion ==
    /\ [](/\ Cardinality(InCritical) <= 1
          /\ \A h \in InCritical : poll_lock = h
          /\ poll_lock # None => poll_lock \in InCritical)
    /\ [][\A h \in InCritical :
              ~BodyStep(h) =>
                  /\ polls' = polls /\ \A r \in Refs : objs'[r] = objs[r]
                  /\ \A t \in Tasks : task'[t].pc = "done" => task[t].pc = "done"]_vars

\* a vote is part-way (counter incremented, voter not recorded) while another
\* call waits for the lock and the reaper is due to sweep
MutualExclusionWitness ==
    /\ \E t \in Tasks : task[t].pc = "voted" /\ poll_lock = t
    /\ \E t \in Tasks : task[t].pc = "acquire"
    /\ reaper.pc = "sweep"

\* C18: every call of add_poll, get_poll, add_poll_vote and pop_poll that
\* waits for poll_lock is given it, completes and has released it, while the
\* reaper keeps sweeping; a call that has returned or raised (the not-found
\* return of add_poll_vote included) does not hold the lock.
LockLiveness ==
    /\ \A t \in Tasks : [](task[t].pc \in {"idle", "acquire", "done"} => poll_lock # t)
    /\ \A t \in Tasks : (task[t].pc = "acquire") ~> (task[t].pc = "done" /\ poll_lock # t)

\* add_poll_vote returned False for an absent key while another call waits
\* for the lock, which the reaper holds
LockLivenessWitness ==
    /\ \E t \in Tasks : task[t].kind = "add_poll_vote" /\ task[t].pc = "done" /\ task[t].success = "False"
    /\ \E t \in Tasks : task[t].pc = "acquire"
    /\ poll_lock = REAPER

\* C14: when a vote request that found a poll runs add_poll_vote after the
\* poll's deadline has passed, either the poll is still in the registry, the
\* vote is accepted and its increment and voter are recorded, or the poll has
\* been removed, the call returns False and no poll changes; nothing raises,
\* and the sweep that removes the poll keeps what was recorded.
VoteReapRace ==
    [][/\ \A t \in Tasks :
              (VoteAddPollVote(t) /\ Deadline(objs[task[t].poll]) < now) =>
                  LET k == task[t].poll_id
                      r == task[t].poll
                      i == task[t].vote_idx + 1
                  IN  IF k \in DOMAIN polls
                      THEN /\ task'[t].result = "accepted" /\ task'[t].success = "True"
                           /\ objs'[r].votes[i] = objs[r].votes[i] + 1
                           /\ task[t].user \in objs'[r].voted
                           /\ SumSeq(objs'[r].votes) = SumSeq(objs[r].votes) + 1
                      ELSE /\ task'[t].result = "expired" /\ task'[t].success = "False"
                           /\ objs' = objs
       /\ SweepStep => objs' = objs]_vars

\* both outcomes of the race: of two vote requests on an expired poll one was
\* accepted before the sweep and one got False after it
VoteReapRaceWitness ==
    /\ reaped # {}
    /\ \E t \in Tasks : task[t].kind = "vote" /\ task[t].result = "accepted" /\ task[t].poll_id \in reaped
    /\ \E t \in Tasks : task[t].kind = "vote" /\ task[t].result = "expired" /\ task[t].poll_id \in reaped
    /\ \E r \in Refs : SumSeq(objs[r].votes) = 1 /\ Cardinality(objs[r].voted) = 1

\* C15: an accepted add_poll_vote(k, v, i) with i in range adds 1 to votes[i]
\* and v to voted of the poll of k and changes nothing else of that poll, no
\* other poll and not the registry; in every step no counter decreases and
\* no voted set loses a member.
VoteEffect ==
    [][/\ (task'[CALLER].kind = "add_poll_vote" /\ task'[CALLER].success = "True") =>
              \A k \in DOMAIN polls, v \in Users, i \in VoteIndexInputs :
                  (/\ i >= 0 /\ i < Len(PollOf(k).options)
                   /\ call_add_poll_vote(k, v, i)) =>
                      /\ objs'[polls[k]] = [PollOf(k) EXCEPT !.votes[i + 1] = @ + 1, !.voted = @ \cup {v}]
                      /\ \A r \in Refs \ {polls[k]} : objs'[r] = objs[r]
                      /\ Len(objs') = Len(objs)
                      /\ polls' = polls
       /\ \A r \in Refs :
              /\ \A i \in 1..Len(objs[r].votes) : objs'[r].votes[i] >= objs[r].votes[i]
              /\ objs[r].voted \subseteq objs'[r].voted]_vars

\* a vote was just accepted on one of two polls of the registry, both with votes
VoteEffectWitness ==
    /\ task[CALLER].kind = "add_poll_vote" /\ task[CALLER].success = "True"
    /\ Cardinality(DOMAIN polls) = 2
    /\ \A k \in DOMAIN polls : PollOf(k).votes[1] >= 1

\* an on_poll_vote step of task t for a press by user on a button of key k
VoteRequest(t, user, k) == \E i \in 0..(MAX_OPTIONS - 1) : on_poll_vote(t, user, k, i)

\* C16: a vote request on a key that is absent ends with the not-found reply,
\* one by a voter who is in voted ends with the already-voted reply, both as
\* ordinary replies, and a request that is not accepted (these two, and the
\* one whose add_poll_vote returns False) changes no poll and not the registry.
RejectedVoteChangesNothing ==
    [][/\ \A t \in Tasks, u \in Users, k \in Ids :
              VoteRequest(t, u, k) =>
                  /\ k \notin DOMAIN polls =>
                         task'[t].pc = "done" /\ task'[t].result = "not_found" /\ task'[t].replies = 1
                  /\ (k \in DOMAIN polls /\ u \in PollOf(k).voted) =>
                         task'[t].pc = "done" /\ task'[t].result = "already_voted" /\ task'[t].replies = 1
                  /\ objs' = objs /\ polls' = polls
       /\ \A t \in Tasks :
              (VoteAddPollVote(t) /\ task'[t].result # "accepted") =>
                  /\ task'[t].result = "expired" /\ task'[t].success = "False"
                  /\ objs' = objs /\ polls' = polls]_vars

\* a voter of a poll asked again and was told so, while another vote request
\* on the poll is in flight; the poll has that one vote
RejectedVoteChangesNothingWitness ==
    \E t \in Tasks :
        /\ task[t].kind = "vote" /\ task[t].result = "already_voted"
        /\ task[t].poll_id \in DOMAIN polls
        /\ SumSeq(PollOf(task[t].poll_id).votes) = 1
        /\ \E s \in Tasks : task[s].kind = "vote" /\ task[s].pc = "add_poll_vote"

\* C17: once cleanup_polls is started the reaper sweeps at once, sleeps 60
\* seconds after every sweep and sweeps again, for ever; so every poll of
\* the registry whose deadline has passed is eventually not in the registry.
ReapingIsLive ==
    /\ [][reaper.pc = "start" => reaper'.pc \in {"start", "sweep"}]_vars
    /\ [][SweepStep => reaper'.wake_at = now + CLEANUP_SLEEP]_vars
    /\ (reaper.pc = "sweep") ~> (reaper.pc = "sleep")
    /\ (reaper.pc = "sleep") ~> (reaper.pc = "sweep")
    /\ \A k \in Ids :
           (reaper.pc # "start" /\ k \in DOMAIN polls /\ Deadline(PollOf(k)) < now)
               ~> (k \notin DOMAIN polls)

\* a poll with a vote was reaped, and the reaper, awake again, is about to
\* sweep while a vote request on the reaped poll is in flight
ReapingIsLiveWitness ==
    /\ reaper.pc = "sweep"
    /\ \E k \in reaped :
           /\ \E t \in Tasks : task[t].pc = "add_poll_vote" /\ task[t].poll_id = k
           /\ \E r \in Refs : SumSeq(objs[r].votes) > 0

\* C19: every on_poll_vote sends exactly one reply (one respond or one
\* update), also when add_poll_vote returned False.
OneReplyPerVote ==
    \A t \in Tasks : (task[t].kind = "vote" /\ task[t].pc = "done") => task[t].replies = 1

\* the Poll objects the registry holds
Registered == {polls[k] : k \in DOMAIN polls}

\* C20: no step changes a Poll that the registry does not hold, so none that
\* pop_poll or a sweep removed; the Poll pop_poll returned to on_poll_end
\* stays as it was returned.
TallyFrozen ==
    [][/\ \A r \in Refs \ Registered : objs'[r] = objs[r]
       /\ \A t \in Tasks :
              (task[t].kind = "end" /\ task[t].pc = "done" /\ task[t].ret # None) =>
                  objs'[task[t].ret] = objs[task[t].ret]]_vars

\* pop_poll returned a poll with a vote to on_poll_end, and a vote request
\* that had found the poll before got False from add_poll_vote
TallyFrozenWitness ==
    \E t \in Tasks, s \in Tasks :
        /\ task[t].kind = "end" /\ task[t].pc = "done" /\ task[t].ret # None
        /\ SumSeq(objs[task[t].ret].votes) > 0
        /\ task[s].kind = "vote" /\ task[s].result = "expired"
        /\ task[s].poll_id \in ended

====
